---- MODULE Spec2Model ----
(***************************************************************************)
(* Model of the request handler analyze_job_posting (POST /) of main.py:   *)
(* validation of the request body, the call to the scoring model, the      *)
(* parse of its answer, the decision gate at 80 and the write of the       *)
(* decision to the application_log collection.                             *)
(*                                                                         *)
(* Several requests are in flight at once (the server handles each in its  *)
(* own worker).  A handler blocks at two places, the model call and the    *)
(* document-store write, so each handler is cut into the steps between     *)
(* these calls; the steps of different requests interleave freely.         *)
(*                                                                         *)
(* Python values are tagged records, so that values of different Python    *)
(* types can be told apart.  A weighted score is kept in thousandths       *)
(* (79999 is 79.999), so that the boundary cases next to 80 exist.         *)
(***************************************************************************)
EXTENDS Integers, Sequences, FiniteSets, TLC

\* Number of requests the model lets arrive.
MaxReq == 2

Req == 1..MaxReq

-----------------------------------------------------------------------------
(* Python values *)

None == [type |-> "NoneType"]

Str(s) == [type |-> "str", val |-> s]

Num(n) == [type |-> "number", val |-> n]

\* A dict is a function from its keys to values.
Dict(f) == [type |-> "dict", val |-> f]

List == [type |-> "list"]

EmptyFields == [k \in {} |-> None]

\* One thousandth is the unit of a score: Scale units make 1.
Scale == 10 * 10 * 10

\* d.get(key, default) of a dict d
Get(d, key, default) ==
    IF key \in DOMAIN d.val THEN d.val[key] ELSE default

\* Python truth of a value, as in "not job_id"
Truthy(v) ==
    CASE v.type = "NoneType" -> FALSE
      [] v.type = "str"      -> v.val # ""
      [] v.type = "number"   -> v.val # 0
      [] OTHER               -> TRUE

-----------------------------------------------------------------------------
(* Inputs: request bodies and answers of the scoring model *)

JobIdValues == {"", "j1", "j2"}

JobDescriptionValues == {"", "Cloud-native role"}

\* A JSON object with the given optional fields ("absent" leaves the key out).
JobObject(id, desc) ==
    Dict((IF id = "absent" THEN EmptyFields ELSE "job_id" :> Str(id))
         @@ (IF desc = "absent" THEN EmptyFields
                                ELSE "job_description" :> Str(desc)))

\* The JSON objects a request body can be
ObjectBodies ==
    {JobObject(id, desc) : id \in JobIdValues \cup {"absent"},
                           desc \in JobDescriptionValues \cup {"absent"}}

\* What request.get_json() can give: a JSON object, or None for a body "null".
Bodies == ObjectBodies \cup {None}

\* Scores the model can give, in thousandths: 35, 79.999, 80, 80.001.
ScoreValues == {35 * Scale, 80 * Scale - 1, 80 * Scale, 80 * Scale + 1}

\* The weighted_score field as the model can give it: a number, null, or absent.
ScoreFields ==
    {"weighted_score" :> Num(s) : s \in ScoreValues}
        \cup {"weighted_score" :> None, EmptyFields}

\* The JSON documents the model can answer with: objects, or a list.
ModelDocuments ==
    {List} \cup {Dict(f @@ ("missing_keywords" :> List)) : f \in ScoreFields}

\* response.text: the serialisation of a document, or text that is no JSON.
ModelTexts ==
    {[wellformed |-> FALSE]} \cup
    {[wellformed |-> TRUE, doc |-> d] : d \in ModelDocuments}

-----------------------------------------------------------------------------
VARIABLES
    pc,               \* where each request's handler stands
    job_data,         \* the handler's job_data (None before it is read)
    score_result,     \* the handler's score_result (None before the parse)
    response,         \* the handler's response: generate_content's result
    pending,          \* the set() call the handler has issued, if any
    returned,         \* the HTTP response the handler has returned, if any
    application_log,  \* the collection: a set of documents [id, data]
    clock,            \* the store's clock, read for SERVER_TIMESTAMP
    modelCalls,       \* number of generate_content calls of each request
    setCalls,         \* number of set() calls of each request
    scoredSeq,        \* requests in the order they passed the decision gate
    writeSeq          \* writes in the order they reached the store

vars == <<pc, job_data, response, score_result, pending, returned,
          application_log, clock, modelCalls, setCalls, scoredSeq, writeSeq>>

NoResponse == [code |-> 0]

NoWrite == [id |-> ""]

Init ==
    /\ pc = [r \in Req |-> "idle"]
    /\ job_data = [r \in Req |-> None]
    /\ score_result = [r \in Req |-> None]
    /\ response = [r \in Req |-> None]
    /\ pending = [r \in Req |-> NoWrite]
    /\ returned = [r \in Req |-> NoResponse]
    /\ application_log = {}
    /\ clock = 0
    /\ modelCalls = [r \in Req |-> 0]
    /\ setCalls = [r \in Req |-> 0]
    /\ scoredSeq = <<>>
    /\ writeSeq = <<>>

-----------------------------------------------------------------------------
(* The handler's pure parts *)

\* jsonify(...), status: an HTTP response
Response(code, body) == [code |-> code, body |-> body]

\* Variant: the except clause returns without the status code (Flask gives 200).
ErrorResponse_NoStatusCode(e) ==
    [code |-> 200,
     body |-> ("status" :> Str("error")) @@ ("message" :> Str(e))]

\* The except clause: {"status": "error", "message": str(e)}, 500
ErrorResponse(e) ==
    Response(500, ("status" :> Str("error")) @@ ("message" :> Str(e)))

\* Line 47
MissingResponse ==
    Response(400, ("status" :> Str("error"))
                  @@ ("message" :> Str("Missing job_id or job_description")))

\* Variant: the check looks at job_id alone.
Missing_OnlyJobId(data) == ~Truthy(Get(data, "job_id", None))

\* Line 46: not job_id or not job_description
Missing(data) ==
    \/ ~Truthy(Get(data, "job_id", None))
    \/ ~Truthy(Get(data, "job_description", None))

\* The threshold of the gate, line 73
THRESHOLD == 80

\* Variant: get() without its default.
WeightedScore_NoDefault(result) == Get(result, "weighted_score", None)

\* Line 70: score_result.get("weighted_score", 0)
WeightedScore(result) == Get(result, "weighted_score", Num(0))

\* Variant: the comparison is <=, so that 80 itself is below.
BelowThreshold_Inclusive(weighted_score) ==
    weighted_score.val <= THRESHOLD * Scale

\* Line 73: weighted_score < 80
BelowThreshold(weighted_score) == weighted_score.val < THRESHOLD * Scale

SERVER_TIMESTAMP == [type |-> "SERVER_TIMESTAMP"]

\* Lines 74-79: the entry of a rejection
RejectedEntry(weighted_score) ==
    ("status" :> Str("REJECTED"))
    @@ ("score" :> weighted_score)
    @@ ("reason" :> Str("Score below 80% threshold"))
    @@ ("timestamp" :> SERVER_TIMESTAMP)

\* Line 80
RejectedResponse(weighted_score) ==
    Response(200, ("status" :> Str("rejected")) @@ ("score" :> weighted_score))

\* Lines 87-93: the entry of an accepted posting
ReadyEntry(weighted_score, result, data) ==
    ("status" :> Str("READY_FOR_SUBMISSION"))
    @@ ("score" :> weighted_score)
    @@ ("gemini_details" :> result)
    @@ ("job_data" :> data)
    @@ ("timestamp" :> SERVER_TIMESTAMP)

\* Line 98
SuccessResponse(weighted_score, result) ==
    Response(200, ("status" :> Str("success"))
                  @@ ("score" :> weighted_score)
                  @@ ("details" :> result))

\* Variant: the gate is left out and every posting is logged as accepted.
GateEntry_NoGate(weighted_score, result, data) ==
    ReadyEntry(weighted_score, result, data)

\* Lines 73-93: the entry the gate has written for a score
GateEntry(weighted_score, result, data) ==
    IF BelowThreshold(weighted_score)
    THEN RejectedEntry(weighted_score)
    ELSE ReadyEntry(weighted_score, result, data)

\* Lines 80 and 98: the response that follows the write
GateResponse(weighted_score, result) ==
    IF BelowThreshold(weighted_score)
    THEN RejectedResponse(weighted_score)
    ELSE SuccessResponse(weighted_score, result)

-----------------------------------------------------------------------------
(* The document store *)

\* The server puts its write time in place of SERVER_TIMESTAMP.
Stamp(data, now) ==
    [f \in DOMAIN data |->
        IF data[f] = SERVER_TIMESTAMP
        THEN [type |-> "timestamp", val |-> now] ELSE data[f]]

\* Variant: set(data, merge=True), the fields of the old document stay.
DocSet_Merge(log, id, data) ==
    LET old == {d \in log : d.id = id}
        merged(o) == [f \in DOMAIN o \cup DOMAIN data |->
                         IF f \in DOMAIN data THEN data[f] ELSE o[f]]
    IN  {d \in log : d.id # id}
        \cup {[id |-> id,
               data |-> IF old = {} THEN data
                        ELSE merged((CHOOSE d \in old : TRUE).data)]}

\* Variant: the collection is replaced by the one document written.
DocSet_OnlyLatest(log, id, data) == {[id |-> id, data |-> data]}

\* document(id).set(data): the document is replaced as a whole.
DocSet(log, id, data) ==
    {d \in log : d.id # id} \cup {[id |-> id, data |-> data]}

-----------------------------------------------------------------------------
(* The steps of a handler *)

\* return ..., code: the handler ends.
Return(r, resp) ==
    /\ pc' = [pc EXCEPT ![r] = "done"]
    /\ returned' = [returned EXCEPT ![r] = resp]

\* Lines 42-58: read the body, validate, and call the model.
\* Requests arrive in the order of their numbers.
Receive(r, body) ==
    /\ pc[r] = "idle"
    /\ r > 1 => pc[r - 1] # "idle"
    /\ job_data' = [job_data EXCEPT ![r] = body]
    /\ IF body.type # "dict"
       THEN \* None has no attribute get
            /\ Return(r, ErrorResponse("AttributeError"))
            /\ UNCHANGED modelCalls
       ELSE IF Missing(body)
       THEN /\ Return(r, MissingResponse)
            /\ UNCHANGED modelCalls
       ELSE /\ pc' = [pc EXCEPT ![r] = "awaitModel"]
            /\ modelCalls' = [modelCalls EXCEPT ![r] = @ + 1]
            /\ UNCHANGED returned
    /\ UNCHANGED <<response, score_result, pending, application_log, clock,
                   setCalls, scoredSeq, writeSeq>>

\* Variant: a failed model call is made again (up to three calls).
ModelRaise_Retry(r) ==
    /\ pc[r] = "awaitModel"
    /\ modelCalls[r] < 3
    /\ modelCalls' = [modelCalls EXCEPT ![r] = @ + 1]
    /\ UNCHANGED <<pc, job_data, response, score_result, pending, returned,
                   application_log, clock, setCalls, scoredSeq, writeSeq>>

\* Lines 58-66, 100-102: generate_content raises.
ModelRaise(r) ==
    /\ pc[r] = "awaitModel"
    /\ Return(r, ErrorResponse("ModelError"))
    /\ UNCHANGED <<job_data, response, score_result, pending, application_log,
                   clock, modelCalls, setCalls, scoredSeq, writeSeq>>

\* Lines 58-93: generate_content returns; parse, gate, and issue the write.
ModelReturn(r, text) ==
    /\ pc[r] = "awaitModel"
    /\ response' = [response EXCEPT ![r] = text]
    /\ IF ~text.wellformed
       THEN \* json.loads raises
            /\ Return(r, ErrorResponse("JSONDecodeError"))
            /\ UNCHANGED <<score_result, pending, setCalls, scoredSeq>>
       ELSE /\ score_result' = [score_result EXCEPT ![r] = text.doc]
            /\ IF text.doc.type # "dict"
               THEN \* a list has no attribute get
                    /\ Return(r, ErrorResponse("AttributeError"))
                    /\ UNCHANGED <<pending, setCalls, scoredSeq>>
               ELSE IF WeightedScore(text.doc).type # "number"
               THEN \* None < 80 raises
                    /\ Return(r, ErrorResponse("TypeError"))
                    /\ UNCHANGED <<pending, setCalls, scoredSeq>>
               ELSE /\ pending' = [pending EXCEPT ![r] =
                          [id |-> Get(job_data[r], "job_id", None).val,
                           data |-> GateEntry(WeightedScore(text.doc),
                                              text.doc, job_data[r])]]
                    /\ setCalls' = [setCalls EXCEPT ![r] = @ + 1]
                    /\ scoredSeq' = Append(scoredSeq, r)
                    /\ pc' = [pc EXCEPT ![r] = "awaitWrite"]
                    /\ UNCHANGED returned
    /\ UNCHANGED <<job_data, application_log, clock, modelCalls, writeSeq>>

\* Lines 74-79, 87-93: the write reaches the store, and set() returns.
StoreApply(r) ==
    /\ pc[r] = "awaitWrite"
    /\ clock' = clock + 1
    /\ application_log' =
          DocSet(application_log, pending[r].id, Stamp(pending[r].data, clock'))
    /\ writeSeq' = Append(writeSeq,
          [req |-> r, id |-> pending[r].id,
           data |-> Stamp(pending[r].data, clock')])
    /\ pc' = [pc EXCEPT ![r] = "written"]
    /\ UNCHANGED <<job_data, response, score_result, pending, returned,
                   modelCalls, setCalls, scoredSeq>>

\* Variant: the failure of set() is swallowed and the handler answers 200.
StoreRaise_Swallow(r) ==
    /\ pc[r] = "awaitWrite"
    /\ pc' = [pc EXCEPT ![r] = "done"]
    /\ returned' = [returned EXCEPT ![r] =
          GateResponse(Get(score_result[r], "weighted_score", Num(0)),
                       score_result[r])]
    /\ UNCHANGED <<job_data, response, score_result, pending, application_log,
                   clock, modelCalls, setCalls, scoredSeq, writeSeq>>

\* Lines 74/87, 100-102: set() raises; nothing is stored.
StoreRaise(r) ==
    /\ pc[r] = "awaitWrite"
    /\ Return(r, ErrorResponse("StoreError"))
    /\ UNCHANGED <<job_data, response, score_result, pending, application_log,
                   clock, modelCalls, setCalls, scoredSeq, writeSeq>>

\* Lines 80, 98: after set() has returned, the handler answers 200.
Respond(r) ==
    /\ pc[r] = "written"
    /\ Return(r, GateResponse(WeightedScore(score_result[r]), score_result[r]))
    /\ UNCHANGED <<job_data, response, score_result, pending, application_log,
                   clock, modelCalls, setCalls, scoredSeq, writeSeq>>

Next ==
    \/ \E r \in Req, body \in ObjectBodies : Receive(r, body)
    \/ \E r \in Req, body \in Bodies \ ObjectBodies : Receive(r, body)
    \/ \E r \in Req : ModelRaise(r)
    \/ \E r \in Req, text \in ModelTexts : ModelReturn(r, text)
    \/ \E r \in Req : StoreApply(r)
    \/ \E r \in Req : StoreRaise(r)
    \/ \E r \in Req : Respond(r)

Spec == Init /\ [][Next]_vars

-----------------------------------------------------------------------------
(* Vocabulary of the properties, stated on the state alone *)

\* The positions in writeSeq of the writes of request r
WriteIdx(r) == {i \in 1..Len(writeSeq) : writeSeq[i].req = r}

\* The body names the key with a non-empty string
HasText(data, key) ==
    /\ data.type = "dict"
    /\ key \in DOMAIN data.val
    /\ data.val[key].type = "str"
    /\ data.val[key].val # ""

\* Request r has arrived carrying a non-empty job_id and job_description
Carries(r) ==
    /\ pc[r] # "idle"
    /\ HasText(job_data[r], "job_id")
    /\ HasText(job_data[r], "job_description")

JobIdOf(r) == job_data[r].val["job_id"].val

\* The model's answer to r parsed to an object
ParsedObject(r) == score_result[r].type = "dict"

\* ... in which weighted_score is absent
ScoreAbsent(r) ==
    ParsedObject(r) /\ "weighted_score" \notin DOMAIN score_result[r].val

\* ... in which weighted_score is a number
ScoreNumeric(r) ==
    /\ ParsedObject(r)
    /\ "weighted_score" \in DOMAIN score_result[r].val
    /\ score_result[r].val["weighted_score"].type = "number"

\* The score the gate works with: the number given, 0 when absent
ScoreOf(r) ==
    IF ScoreAbsent(r) THEN 0 ELSE score_result[r].val["weighted_score"].val

\* The model call of r was made and raised: nothing came back
ModelFailed(r) ==
    pc[r] = "done" /\ modelCalls[r] >= 1 /\ response[r] = None

\* The text the model gave r is no JSON
Malformed(r) ==
    IF response[r] = None THEN FALSE ELSE ~response[r].wellformed

\* The set() call of r was made and raised: nothing was stored
StoreFailed(r) ==
    pc[r] = "done" /\ setCalls[r] >= 1 /\ WriteIdx(r) = {}

IsError500(resp) ==
    /\ resp.code = 500
    /\ DOMAIN resp.body = {"status", "message"}
    /\ resp.body["status"] = Str("error")

Answer400 ==
    [code |-> 400,
     body |-> ("status" :> Str("error"))
              @@ ("message" :> Str("Missing job_id or job_description"))]

AnswerRejected(s) ==
    [code |-> 200,
     body |-> ("status" :> Str("rejected")) @@ ("score" :> Num(s))]

AnswerSuccess(s, details) ==
    [code |-> 200,
     body |-> ("status" :> Str("success")) @@ ("score" :> Num(s))
              @@ ("details" :> details)]

\* The two shapes of a log entry, with the timestamp field as given
EntryRejected(s, ts) ==
    ("status" :> Str("REJECTED")) @@ ("score" :> Num(s))
    @@ ("reason" :> Str("Score below 80% threshold")) @@ ("timestamp" :> ts)

EntryReady(s, details, data, ts) ==
    ("status" :> Str("READY_FOR_SUBMISSION")) @@ ("score" :> Num(s))
    @@ ("gemini_details" :> details) @@ ("job_data" :> data)
    @@ ("timestamp" :> ts)

\* The entry request r is to write, by the rule of the gate: below 80 or not
EntryOf(r, ts) ==
    IF ScoreOf(r) < 80 * Scale
    THEN EntryRejected(ScoreOf(r), ts)
    ELSE EntryReady(ScoreOf(r), score_result[r], job_data[r], ts)

\* The answer of r after its write, by the same rule
AnswerOf(r) ==
    IF ScoreOf(r) < 80 * Scale
    THEN AnswerRejected(ScoreOf(r))
    ELSE AnswerSuccess(ScoreOf(r), score_result[r])

\* A 200 answer and a log entry tell the same outcome and score
Agree(resp, entry) ==
    /\ resp.body["score"] = entry["score"]
    /\ resp.body["status"] = Str("rejected") <=> entry["status"] = Str("REJECTED")
    /\ resp.body["status"] = Str("success")
          <=> entry["status"] = Str("READY_FOR_SUBMISSION")

\* The documents of the collection under a key
DocsAt(log, id) == {d \in log : d.id = id}

\* The position of the last write to reach the store for a key (0: none)
LastWrite(id) ==
    LET S == {i \in 1..Len(writeSeq) : writeSeq[i].id = id}
    IN  IF S = {} THEN 0 ELSE CHOOSE i \in S : \A j \in S : j <= i

-----------------------------------------------------------------------------
(* C1 *)

\* C1: every finished request in which job_id or job_description is missing
\* or empty was answered 400 {status: error, message: Missing job_id or
\* job_description}, made no call to the model and wrote nothing to the log.
C1_MissingAnswered400 ==
    \A r \in Req :
        (pc[r] = "done" /\ ~Carries(r)) =>
            /\ returned[r] = Answer400
            /\ modelCalls[r] = 0
            /\ setCalls[r] = 0
            /\ WriteIdx(r) = {}

\* What does hold for C1's requests: no model call and no write in any case,
\* and the 400 answer whenever the body is a JSON object.
C1_NoSideEffects ==
    \A r \in Req :
        (pc[r] = "done" /\ ~Carries(r)) =>
            /\ modelCalls[r] = 0 /\ setCalls[r] = 0 /\ WriteIdx(r) = {}
            /\ job_data[r].type = "dict" => returned[r] = Answer400
            /\ job_data[r].type # "dict" => IsError500(returned[r])

-----------------------------------------------------------------------------
(* C2 *)

\* C2, as stated: every finished request carrying a non-empty job_id and
\* job_description has made exactly one write, to the document keyed by its
\* job_id, with the status given by comparing weighted_score against 80.
C2_ExactlyOneWrite ==
    \A r \in Req :
        (pc[r] = "done" /\ Carries(r)) =>
            /\ Cardinality(WriteIdx(r)) = 1
            /\ \A i \in WriteIdx(r) :
                  /\ writeSeq[i].id = JobIdOf(r)
                  /\ writeSeq[i].data["status"] =
                        IF ScoreOf(r) < 80 * Scale
                        THEN Str("REJECTED") ELSE Str("READY_FOR_SUBMISSION")

\* C2, amended: a request carrying a non-empty job_id and job_description
\* makes at most one write; once finished it has made exactly one if the
\* model answered an object whose weighted_score is a number or absent and
\* set() did not raise, and none otherwise; the write is to the document
\* keyed by its job_id, with the status given by comparing weighted_score
\* (0 when absent) against 80.
C2_OneWriteWhenScoredAndStored ==
    \A r \in Req :
        Carries(r) =>
            /\ Cardinality(WriteIdx(r)) <= 1
            /\ pc[r] = "done" =>
                  (Cardinality(WriteIdx(r)) = 1
                      <=> /\ ScoreAbsent(r) \/ ScoreNumeric(r)
                          /\ ~StoreFailed(r))
            /\ \A i \in WriteIdx(r) :
                  /\ writeSeq[i].id = JobIdOf(r)
                  /\ writeSeq[i].data["status"] =
                        IF ScoreOf(r) < 80 * Scale
                        THEN Str("REJECTED") ELSE Str("READY_FOR_SUBMISSION")

\* A valid request has finished with its one write, and another valid one
\* has finished without any because its model call raised.
C2_Witness ==
    \E r, q \in Req :
        /\ pc[r] = "done" /\ Carries(r) /\ Cardinality(WriteIdx(r)) = 1
        /\ returned[r].code = 200
        /\ Carries(q) /\ ModelFailed(q) /\ WriteIdx(q) = {}

-----------------------------------------------------------------------------
(* C3 *)

\* C3: for a numeric weighted_score s given by the model, the gate is binary
\* and inclusive at 80: s < 80 gives the entry REJECTED with the reason
\* "Score below 80% threshold" and the answer {rejected, s}; s >= 80, 80
\* included, gives the entry READY_FOR_SUBMISSION and the answer {success, s,
\* details}.  A request that passed the gate ends with that answer (or with
\* the 500 of a failed set(), see C10), and the outcome and score of a 200
\* answer agree with those of the entry the request wrote.
C3_BinaryGateAt80 ==
    \A r \in Req :
        ScoreNumeric(r) =>
            LET s == score_result[r].val["weighted_score"].val
            IN  /\ pc[r] \in {"awaitWrite", "written", "done"}
                /\ setCalls[r] = 1
                /\ s < 80 * Scale =>
                      /\ pending[r].data = EntryRejected(s, SERVER_TIMESTAMP)
                      /\ returned[r].code = 200
                            => returned[r] = AnswerRejected(s)
                /\ s >= 80 * Scale =>
                      /\ pending[r].data =
                            EntryReady(s, score_result[r], job_data[r],
                                       SERVER_TIMESTAMP)
                      /\ returned[r].code = 200
                            => returned[r] = AnswerSuccess(s, score_result[r])
                /\ pc[r] = "done" =>
                      returned[r].code = 200 \/ StoreFailed(r)
                /\ returned[r].code = 200 =>
                      /\ WriteIdx(r) # {}
                      /\ \A i \in WriteIdx(r) :
                            Agree(returned[r], writeSeq[i].data)

\* A score of exactly 80 was accepted and one of 79.999 was rejected.
C3_Witness ==
    \E r, q \in Req :
        /\ ScoreNumeric(r) /\ ScoreOf(r) = 80 * Scale
        /\ returned[r] = AnswerSuccess(80 * Scale, score_result[r])
        /\ ScoreNumeric(q) /\ ScoreOf(q) = 80 * Scale - 1
        /\ returned[q] = AnswerRejected(80 * Scale - 1)

-----------------------------------------------------------------------------
(* C4 *)

\* C4: when the model call of a valid request raises, the request is answered
\* 500 {status: error, message}, it makes no set() call and no write, and the
\* model call is not made again: no request ever calls the model twice.
C4_ModelFailure ==
    \A r \in Req :
        /\ modelCalls[r] <= 1
        /\ ModelFailed(r) =>
              /\ Carries(r)
              /\ IsError500(returned[r])
              /\ modelCalls[r] = 1
              /\ setCalls[r] = 0
              /\ WriteIdx(r) = {}

\* The model call of a request raised while the log held an entry of another.
C4_Witness ==
    \E r \in Req : ModelFailed(r) /\ application_log # {}

-----------------------------------------------------------------------------
(* C5 *)

\* C5: the log holds at most one document per job_id, there is one exactly
\* for the keys written to, and it equals the entry of the last write that
\* reached the store for that key: nothing of an earlier entry is left, so a
\* REJECTED document has no gemini_details or job_data and a
\* READY_FOR_SUBMISSION document has no reason.
C5_OverwriteLaw ==
    /\ \A d, e \in application_log : d.id = e.id => d = e
    /\ \A id \in JobIdValues :
          IF LastWrite(id) = 0
          THEN DocsAt(application_log, id) = {}
          ELSE DocsAt(application_log, id) =
                  {[id |-> id, data |-> writeSeq[LastWrite(id)].data]}
    /\ \A d \in application_log :
          /\ d.data["status"] = Str("REJECTED") =>
                DOMAIN d.data = {"status", "score", "reason", "timestamp"}
          /\ d.data["status"] = Str("READY_FOR_SUBMISSION") =>
                DOMAIN d.data = {"status", "score", "gemini_details",
                                 "job_data", "timestamp"}
          /\ d.data["status"] \in {Str("REJECTED"), Str("READY_FOR_SUBMISSION")}

\* A REJECTED entry has been written over a READY_FOR_SUBMISSION entry of
\* the same job_id.
C5_Witness ==
    \E i, j \in 1..Len(writeSeq) :
        /\ i < j
        /\ writeSeq[i].id = writeSeq[j].id
        /\ j = LastWrite(writeSeq[j].id)
        /\ writeSeq[i].data["status"] = Str("READY_FOR_SUBMISSION")
        /\ writeSeq[j].data["status"] = Str("REJECTED")
        /\ [id |-> writeSeq[j].id, data |-> writeSeq[j].data]
              \in application_log

-----------------------------------------------------------------------------
(* C6 *)

\* C6: when the model's answer parses to an object without weighted_score,
\* the gate takes the score to be 0: the handler goes on to write a REJECTED
\* entry with score 0 under the request's job_id, and once that write is
\* stored the answer is 200 {rejected, 0}; the absence itself never ends the
\* request with an error (only a failed set() does, see C10).
C6_AbsentScoreIsZero ==
    \A r \in Req :
        ScoreAbsent(r) =>
            /\ pc[r] \in {"awaitWrite", "written", "done"}
            /\ pending[r] =
                  [id |-> JobIdOf(r),
                   data |-> EntryRejected(0, SERVER_TIMESTAMP)]
            /\ pc[r] = "done" =>
                  returned[r] = AnswerRejected(0) \/ StoreFailed(r)
            /\ returned[r].code = 200 =>
                  \E i \in WriteIdx(r) :
                      /\ writeSeq[i].id = JobIdOf(r)
                      /\ writeSeq[i].data["status"] = Str("REJECTED")
                      /\ writeSeq[i].data["score"] = Num(0)
                      /\ DOMAIN writeSeq[i].data =
                            {"status", "score", "reason", "timestamp"}

\* A request whose model answer had no weighted_score was answered
\* 200 {rejected, 0} and its REJECTED entry is in the log.
C6_Witness ==
    \E r \in Req :
        /\ ScoreAbsent(r)
        /\ returned[r] = AnswerRejected(0)
        /\ \E d \in application_log :
              /\ d.id = JobIdOf(r)
              /\ d.data["status"] = Str("REJECTED")
              /\ d.data["score"] = Num(0)

-----------------------------------------------------------------------------
(* C7 *)

\* C7, as stated: a finished request whose model text was malformed JSON, or
\* parsed to an object without weighted_score, was answered like an upstream
\* failure: 500 {status: error, message}.
C7_DeserializationFailureIs500 ==
    \A r \in Req :
        (pc[r] = "done" /\ (Malformed(r) \/ ScoreAbsent(r))) =>
            IsError500(returned[r])

\* C7, amended: malformed JSON text is handled like a failure of the model
\* call: the request ends with 500 {status: error, message} and nothing is
\* written.  A parsed object without weighted_score is no failure: the score
\* is taken to be 0 and the request is answered 200 {rejected, 0} (500 only
\* if set() raises).
C7_MalformedIs500AbsentIsRejected ==
    \A r \in Req :
        /\ (Malformed(r) \/ ModelFailed(r)) =>
              /\ pc[r] = "done"
              /\ IsError500(returned[r])
              /\ setCalls[r] = 0
              /\ WriteIdx(r) = {}
        /\ (pc[r] = "done" /\ ScoreAbsent(r)) =>
              \/ returned[r] = AnswerRejected(0)
              \/ StoreFailed(r) /\ IsError500(returned[r])

\* One request got malformed text and 500, one got an object without
\* weighted_score and 200.
C7_Witness ==
    \E r, q \in Req :
        /\ Malformed(r) /\ returned[r].code = 500
        /\ ScoreAbsent(q) /\ returned[q].code = 200

-----------------------------------------------------------------------------
(* C8 *)

\* Every document is, in full, the entry of the request whose write reached
\* the store last for its key: every field comes from that one request.
C8_WholeEntryOfLastWriter ==
    \A d \in application_log :
        /\ LastWrite(d.id) # 0
        /\ LET w == writeSeq[LastWrite(d.id)]
           IN  /\ JobIdOf(w.req) = d.id
               /\ d.data = EntryOf(w.req, d.data["timestamp"])
               /\ d.data["timestamp"].type = "timestamp"

\* The documents under a key change only in a step in which the write of a
\* request with that job_id reaches the store.
C8_OnlyOwnKeyChanges ==
    \A id \in JobIdValues :
        DocsAt(application_log', id) # DocsAt(application_log, id) =>
            \E r \in Req :
                /\ pc[r] = "awaitWrite" /\ pc'[r] = "written"
                /\ JobIdOf(r) = id

\* C8: under any interleaving of requests, a request changes only the
\* document of its own job_id, and the document of a job_id is in full the
\* entry of the request whose write reached the store last, whatever the
\* order in which the requests started or were scored; it never mixes the
\* fields of two requests.
C8_ConcurrentWrites ==
    [][C8_OnlyOwnKeyChanges /\ C8_WholeEntryOfLastWriter']_vars

\* Two requests share a job_id; the one that started first and was scored
\* first reached the store last, and the document is its entry, which
\* differs from the other request's.
C8_Witness ==
    /\ Len(writeSeq) = 2 /\ Len(scoredSeq) = 2
    /\ writeSeq[1].req = 2 /\ writeSeq[2].req = 1
    /\ scoredSeq = <<1, 2>>
    /\ writeSeq[1].id = writeSeq[2].id
    /\ ScoreOf(1) # ScoreOf(2)
    /\ application_log =
          {[id |-> JobIdOf(1), data |-> EntryOf(1, [type |-> "timestamp", val |-> 2])]}

-----------------------------------------------------------------------------
(* C9 *)

\* C9, as stated: every finished request has made zero or one write and one
\* call to the model.
C9_OneModelCallPerRequest ==
    \A r \in Req :
        pc[r] = "done" =>
            /\ Cardinality(WriteIdx(r)) \in {0, 1}
            /\ setCalls[r] \in {0, 1}
            /\ modelCalls[r] = 1

\* C9, amended: a request makes zero or one write and at most one call to
\* the model, never two of either; it makes exactly one call if its body is
\* an object with a non-empty job_id and job_description, and none otherwise.
C9_AtMostOneWriteAndCall ==
    \A r \in Req :
        /\ Cardinality(WriteIdx(r)) \in {0, 1}
        /\ setCalls[r] \in {0, 1}
        /\ modelCalls[r] \in {0, 1}
        /\ pc[r] # "idle" => (modelCalls[r] = 1 <=> Carries(r))
        /\ setCalls[r] <= modelCalls[r]

\* One request finished with one model call and one write, another finished
\* at validation with neither.
C9_Witness ==
    \E r, q \in Req :
        /\ pc[r] = "done" /\ modelCalls[r] = 1 /\ Cardinality(WriteIdx(r)) = 1
        /\ pc[q] = "done" /\ returned[q].code = 400 /\ modelCalls[q] = 0

-----------------------------------------------------------------------------
(* C10 *)

\* C10: a request answered 200 has its write to its job_id's document in the
\* store already, with the status and score of the answer.  A request whose
\* set() raised is answered 500 {status: error}: no score is returned to the
\* caller, and set() is not called again.
C10_WriteBeforeAnswer ==
    \A r \in Req :
        /\ setCalls[r] <= 1
        /\ returned[r].code = 200 =>
              /\ Cardinality(WriteIdx(r)) = 1
              /\ \A i \in WriteIdx(r) :
                    /\ writeSeq[i].id = JobIdOf(r)
                    /\ Agree(returned[r], writeSeq[i].data)
        /\ StoreFailed(r) =>
              /\ IsError500(returned[r])
              /\ "score" \notin DOMAIN returned[r].body
              /\ setCalls[r] = 1

\* One request was answered 200 after its write, another 500 after its
\* set() raised.
C10_Witness ==
    \E r, q \in Req :
        /\ returned[r].code = 200 /\ WriteIdx(r) # {}
        /\ StoreFailed(q) /\ returned[q].code = 500

====
